---- MODULE Spec2Model ----
(***************************************************************************)
(* MultipleDisplay (skfda/exploratory/visualization/_multiple_display.py): *)
(* the selection state machine driven by pick, hover and slider events.    *)
(* Sample indices, slider indices and slider positions are 0-based as in   *)
(* the source.  Opacities are in tenths, slider values in 1/Units.         *)
(***************************************************************************)
EXTENDS Integers, Sequences, FiniteSets, TLC

\* Number of samples reported by the first display (self.length_data).
LengthData ==
    3

\* Resolution of the raw slider values: a value v stands for v / Units.
Units ==
    2

\* Largest criterion value drawn when add_slider is checked on its own.
MaxCrit ==
    4

\* Depth of nested observer calls after which Python raises RecursionError.
MaxDepth ==
    3

\* Largest number of displays handed to the constructor.
MaxDisplays ==
    2

\* Largest number of criteria and of slider types handed to the constructor.
MaxCriteria ==
    2

\* Number of data sets handed to fit and fit_predict.
MaxData ==
    4

\* Number of different bases of covariates and coefficients.
MaxBasis ==
    2

\* Number of different coefficient arrays of an FDataBasis.
MaxCoef ==
    2

\* artist.set_alpha(0.1), in tenths.
Dim ==
    1

\* artist.set_alpha(1), in tenths.
Full ==
    10

\* xytext / label_xpos / label_ypos defaults of the annotation.
LabelPos ==
    20

\* label_xpos when the point is nearer the right limit.
LabelXFlipped ==
    -80

\* label_ypos when the point is nearer the top limit.
LabelYFlipped ==
    -20

Samples ==
    0 .. (LengthData - 1)

\* len(d.axes) of each display, in declaration order.
DisplayAxes ==
    <<2, 1>>

Displays ==
    1 .. Len(DisplayAxes)

\* isinstance(artist, PathCollection) for the artists of display d.
IsPathCollection(d) ==
    d = 1

RECURSIVE SumAxes(_)
SumAxes(n) ==
    IF n = 0 THEN 0 ELSE DisplayAxes[n] + SumAxes(n - 1)

\* self._n_graphs
n_graphs ==
    SumAxes(Len(DisplayAxes))

\* Slot in self.axes given to sub-axis j of display d by plot().
AxisSlot(d, j) ==
    SumAxes(d - 1) + j

\* An artist is d.artists[i, j]: display d, sub-axis j, sample i.
Artists ==
    {a \in Displays \X (0 .. (n_graphs - 1)) \X Samples : a[2] < DisplayAxes[a[1]]}

\* The Python value None.
None ==
    <<>>

----------------------------------------------------------------------------
\* add_slider: the order stored in self.criteria for one criterion.

\* dict(zip(criterion, range(length_data))): a later sample overwrites an
\* earlier one with the same criterion value.
CriterionDict(criterion) ==
    [v \in {criterion[i] : i \in Samples} |->
        CHOOSE i \in Samples :
            /\ criterion[i] = v
            /\ \A j \in Samples : criterion[j] = v => j <= i]

RECURSIVE SortedValues(_, _)
\* sorted(dic.items()) followed by .values(): the samples by ascending key.
SortedValues(dic, keys) ==
    IF keys = {} THEN <<>>
    ELSE LET m == CHOOSE k \in keys : \A k2 \in keys : k <= k2
         IN <<dic[m]>> \o SortedValues(dic, keys \ {m})

add_slider_order(criterion) ==
    LET dic == CriterionDict(criterion)
    IN SortedValues(dic, DOMAIN dic)

\* list(criterium).index(x): first 0-based position of x, -1 for ValueError.
ListIndex(order, x) ==
    IF \E p \in 1 .. Len(order) : order[p] = x
    THEN (CHOOSE p \in 1 .. Len(order) :
            /\ order[p] = x
            /\ \A q \in 1 .. (p - 1) : order[q] # x) - 1
    ELSE 0 - 1

----------------------------------------------------------------------------
VARIABLES
    criterion_in,   \* the criteria handed to the constructor, one per slider
    criteria,       \* self.criteria: the order stored by add_slider, per slider
    alpha,          \* opacity of every artist of every display
    point_clicked,  \* self.point_clicked: None or an artist
    index_clicked,  \* self.index_clicked
    clicked,        \* self.clicked
    is_updating,    \* self.is_updating
    val,            \* slider.val of every slider, in 1/Units
    valtext,        \* number shown by slider.valtext, in 1/Units
    widget_index,   \* self.widget_index: <<>> while the attribute is unset, else <<k>>
    tag,            \* self._tag: the hover annotation
    last,           \* the last handler that ran and how it ended
    args,           \* the criteria, sliders and axes arguments of __init__
    displays,       \* self.displays: d.axes, d.n_samples() and whether d is plotted
    figure,         \* self.fig and self.axes: the layout, every axis, the callbacks
    length_data,    \* self.length_data: <<>> while no object exists
    clustering,     \* an AgglomerativeClustering: its parameters and _estimator
    coefficient_info \* a CoefficientInfoFDataBasis: basis and inner_basis; <<>> while none exists

vars ==
    <<criterion_in, criteria, alpha, point_clicked, index_clicked, clicked,
      is_updating, val, valtext, widget_index, tag, last, args, displays,
      figure, length_data, clustering, coefficient_info>>

\* Slider indices (positions in self.sliders and self.criteria).
Sliders ==
    0 .. (Len(criteria) - 1)

\* The mutable fields of the object as one record, threaded through a handler.
\* exc is the exception that is propagating ("" for none), depth the number
\* of observer calls on the stack and nested its maximum, pushes the number
\* of set_val calls the handler issued, unguarded whether one of them was
\* issued while is_updating was false, redraw whether draw_idle() was
\* requested.
Self ==
    [alpha |-> alpha, point_clicked |-> point_clicked,
     index_clicked |-> index_clicked, clicked |-> clicked,
     is_updating |-> is_updating, val |-> val, valtext |-> valtext,
     widget_index |-> widget_index, tag |-> tag,
     exc |-> "", depth |-> 0, redraw |-> FALSE, pushes |-> 0, nested |-> 0,
     unguarded |-> FALSE]

Raise(s, e) ==
    [s EXCEPT !.exc = e]

\* Make the changes of the slider discrete: int(int(value / 0.5) * 0.5).
Discretize(value) ==
    ((2 * value) \div Units) \div 2

----------------------------------------------------------------------------
\* Intensity fan-out and slider propagation.

RECURSIVE value_updated(_, _)

\* Slider.set_val of slider k: stores the value, shows it, and calls the
\* observer registered by plot() (slider.on_changed(self.value_updated)).
set_val(s, k, v) ==
    IF s.exc # "" THEN s
    ELSE IF s.depth >= MaxDepth THEN Raise(s, "RecursionError")
    ELSE LET s1 == [s EXCEPT !.val[k + 1] = v, !.valtext[k + 1] = v,
                             !.depth = @ + 1,
                             !.nested = IF s.depth + 1 > @ THEN s.depth + 1 ELSE @]
             s2 == value_updated(s1, v)
         IN [s2 EXCEPT !.depth = s.depth]

\* set_val issued by the coordinator itself (counted in pushes).
push_val(s, k, v) ==
    set_val([s EXCEPT !.pushes = @ + 1,
                      !.unguarded = @ \/ ~s.is_updating], k, v)

RECURSIVE push_selected_skips_moved(_, _)
\* Mutant of push_selected: the slider the user moved is left where it is.
push_selected_skips_moved(s, k) ==
    IF s.exc # "" \/ k \notin Sliders THEN s
    ELSE IF s.widget_index = <<k>> THEN push_selected_skips_moved(s, k + 1)
    ELSE LET val_widget == ListIndex(criteria[k + 1], s.index_clicked)
         IN IF val_widget < 0 THEN Raise(s, "ValueError")
            ELSE push_selected_skips_moved(
                     push_val(s, k, val_widget * Units), k + 1)

RECURSIVE push_selected(_, _)
\* for criterium, slider in zip(self.criteria, self.sliders):
\*     slider.set_val(list(criterium).index(self.index_clicked))
\* from slider k on.
push_selected(s, k) ==
    IF s.exc # "" \/ k \notin Sliders THEN s
    ELSE LET val_widget == ListIndex(criteria[k + 1], s.index_clicked)
         IN IF val_widget < 0 THEN Raise(s, "ValueError")
            ELSE push_selected(push_val(s, k, val_widget * Units), k + 1)

\* Mutant of reduce_alpha: only the first display is dimmed.
reduce_alpha_first_display(a, index) ==
    [x \in Artists |-> IF x[3] # index /\ x[1] = 1 THEN Dim ELSE a[x]]

\* for i != self.index_clicked: every artist of sample i gets alpha 0.1.
reduce_alpha(a, index) ==
    [x \in Artists |-> IF x[3] # index THEN Dim ELSE a[x]]

reduce_points_intensity(s) ==
    LET s1 == [s EXCEPT !.alpha = reduce_alpha(s.alpha, s.index_clicked),
                        !.is_updating = TRUE]
        s2 == push_selected(s1, 0)
    IN IF s2.exc # "" THEN s2 ELSE [s2 EXCEPT !.is_updating = FALSE]

\* Mutant of reset_sliders: the sliders are left where they are.
reset_sliders_skipped(s, j) ==
    s

RECURSIVE reset_sliders(_, _)
\* for j in range(len(self.sliders)): self.sliders[j].set_val(0)
reset_sliders(s, j) ==
    IF s.exc # "" \/ j \notin Sliders THEN s
    ELSE reset_sliders(push_val(s, j, 0), j + 1)

\* Mutant of restore_alpha: the opacities are left as they are.
restore_alpha_kept(a) ==
    a

restore_alpha(a) ==
    [x \in Artists |-> Full]

restore_points_intensity(s) ==
    LET s1 == [s EXCEPT !.alpha = restore_alpha(s.alpha),
                        !.point_clicked = None,
                        !.index_clicked = -1,
                        !.is_updating = TRUE]
        s2 == reset_sliders(s1, 0)
    IN IF s2.exc # "" THEN s2 ELSE [s2 EXCEPT !.is_updating = FALSE]

\* change_display_intensity(index, intensity): every display, every artist
\* of the sample.
change_display_intensity(a, index, intensity) ==
    [x \in Artists |-> IF x[3] = index THEN intensity ELSE a[x]]

\* The sample whose row of d.artists holds the artist, for the display and
\* sub-axis whose axes is point_clicked.axes (np.where(...)[0][0]).
picked_index(artist) ==
    CHOOSE i \in Samples :
        /\ <<artist[1], artist[2], i>> = artist
        /\ \A i2 \in Samples : <<artist[1], artist[2], i2>> = artist => i <= i2

update_index_display_picked(s) ==
    [s EXCEPT !.index_clicked = picked_index(s.point_clicked)]

\* Mutant of change_alpha: the old sample is not dimmed.
change_alpha_keeps_old(a, index, old_index) ==
    change_display_intensity(a, index, Full)

\* The loop of change_points_intensity over range(length_data).
change_alpha(a, index, old_index) ==
    change_display_intensity(
        change_display_intensity(a, old_index, Dim), index, Full)

\* Mutant of change_points_intensity: no full restore when the new index is
\* the old one.
change_points_intensity_no_restore(s, old_index) ==
    LET s0 == IF old_index = None THEN update_index_display_picked(s) ELSE s
        old == IF old_index = None THEN s.index_clicked ELSE old_index[1]
        s1 == [s0 EXCEPT
                  !.alpha = change_alpha(s0.alpha, s0.index_clicked, old),
                  !.is_updating = TRUE]
        s2 == push_selected(s1, 0)
    IN IF s2.exc # "" THEN s2 ELSE [s2 EXCEPT !.is_updating = FALSE]

\* old_index is <<>> for the default None, else <<i>>.
change_points_intensity(s, old_index) ==
    LET s0 == IF old_index = None THEN update_index_display_picked(s) ELSE s
        old == IF old_index = None THEN s.index_clicked ELSE old_index[1]
    IN IF s0.index_clicked = old
       THEN restore_points_intensity(s0)
       ELSE LET s1 == [s0 EXCEPT
                          !.alpha = change_alpha(s0.alpha, s0.index_clicked, old),
                          !.is_updating = TRUE]
                s2 == push_selected(s1, 0)
            IN IF s2.exc # "" THEN s2 ELSE [s2 EXCEPT !.is_updating = FALSE]

RECURSIVE push_others(_, _)
\* Update the other sliders values (every slider but self.widget_index).
push_others(s, i) ==
    IF s.exc # "" \/ i \notin Sliders THEN s
    ELSE IF i = s.widget_index[1] THEN push_others(s, i + 1)
    ELSE LET val_widget == ListIndex(criteria[i + 1], s.index_clicked)
         IN IF val_widget < 0 THEN Raise(s, "ValueError")
            ELSE push_others(push_val(s, i, val_widget * Units), i + 1)

\* Mutant of value_updated: the intensity change is used even when nothing
\* was selected before.
value_updated_always_change(s, value) ==
    IF s.is_updating THEN s
    ELSE LET s1 == [s EXCEPT !.is_updating = TRUE]
             index == Discretize(value)
             old_index == s.index_clicked
         IN IF s1.widget_index = None THEN Raise(s1, "AttributeError")
            ELSE LET w == s1.widget_index[1]
                 IN IF index >= Len(criteria[w + 1]) THEN Raise(s1, "IndexError")
                    ELSE LET s2 == [s1 EXCEPT
                                       !.index_clicked = criteria[w + 1][index + 1],
                                       !.valtext[w + 1] = index * Units]
                             s3 == push_others(s2, 0)
                             s4 == [s3 EXCEPT !.is_updating = FALSE,
                                              !.clicked = TRUE]
                         IN IF s3.exc # "" THEN s3
                            ELSE change_points_intensity(
                                     [s4 EXCEPT !.clicked =
                                         (s4.index_clicked # old_index)],
                                     <<old_index>>)

\* Mutant of guarded: there is no guard.
guarded_never(s) ==
    FALSE

\* Mutant of guarded: the guard tests the wrong flag.
guarded_by_clicked(s) ==
    s.clicked

\* The guard of value_updated: "Used to avoid entering in an etern loop".
guarded(s) ==
    s.is_updating

value_updated(s, value) ==
    IF guarded(s) THEN s
    ELSE LET s1 == [s EXCEPT !.is_updating = TRUE]
             index == Discretize(value)
             old_index == s.index_clicked
         IN IF s1.widget_index = None THEN Raise(s1, "AttributeError")
            ELSE LET w == s1.widget_index[1]
                 IN IF index >= Len(criteria[w + 1]) THEN Raise(s1, "IndexError")
                    ELSE LET s2 == [s1 EXCEPT
                                       !.index_clicked = criteria[w + 1][index + 1],
                                       !.valtext[w + 1] = index * Units]
                             s3 == push_others(s2, 0)
                             s4 == [s3 EXCEPT !.is_updating = FALSE,
                                              !.clicked = TRUE]
                         IN IF s3.exc # "" THEN s3
                            ELSE IF old_index = -1
                            THEN reduce_points_intensity(s4)
                            ELSE change_points_intensity(
                                     [s4 EXCEPT !.clicked =
                                         (s4.index_clicked # old_index)],
                                     <<old_index>>)

----------------------------------------------------------------------------
\* The pick handler.

\* Mutant of pick: the clicked branch leaves clicked as it is.
pick_keeps_clicked(s, artist) ==
    IF s.clicked
    THEN change_points_intensity([s EXCEPT !.point_clicked = artist], None)
    ELSE IF s.point_clicked = None
    THEN reduce_points_intensity(
             update_index_display_picked([s EXCEPT !.point_clicked = artist]))
    ELSE IF s.point_clicked = artist
    THEN restore_points_intensity(s)
    ELSE change_points_intensity([s EXCEPT !.point_clicked = artist], None)

\* Mutant of pick: the same-artist test comes before the clicked test.
pick_same_artist_first(s, artist) ==
    IF s.point_clicked = artist
    THEN restore_points_intensity(s)
    ELSE IF s.clicked
    THEN LET s1 == change_points_intensity(
                       [s EXCEPT !.point_clicked = artist], None)
         IN IF s1.exc # "" THEN s1 ELSE [s1 EXCEPT !.clicked = FALSE]
    ELSE IF s.point_clicked = None
    THEN reduce_points_intensity(
             update_index_display_picked([s EXCEPT !.point_clicked = artist]))
    ELSE change_points_intensity([s EXCEPT !.point_clicked = artist], None)

\* pick(event) with event.artist = artist.
pick(s, artist) ==
    IF s.clicked
    THEN LET s1 == change_points_intensity(
                       [s EXCEPT !.point_clicked = artist], None)
         IN IF s1.exc # "" THEN s1 ELSE [s1 EXCEPT !.clicked = FALSE]
    ELSE IF s.point_clicked = None
    THEN reduce_points_intensity(
             update_index_display_picked([s EXCEPT !.point_clicked = artist]))
    ELSE IF s.point_clicked = artist
    THEN restore_points_intensity(s)
    ELSE change_points_intensity([s EXCEPT !.point_clicked = artist], None)

\* The row of the transition table of pick that a state selects.
pick_branch(s, artist) ==
    IF s.clicked THEN "clicked"
    ELSE IF s.point_clicked = None THEN "first"
    ELSE IF s.point_clicked = artist THEN "same"
    ELSE "other"

----------------------------------------------------------------------------
\* The hover handler and the annotation.

\* axes.get_xlim() and axes.get_ylim() of every display axis.
XLim ==
    <<0, 2>>

YLim ==
    <<0, 2>>

\* Pointer positions, in data coordinates.
Positions ==
    (XLim[1] .. XLim[2]) \X (YLim[1] .. YLim[2])

\* artist.get_offsets()[0]: where the point of an artist is drawn.  Samples
\* 0 and 1 overlap in the second sub-axis of the first display.
Offsets(artist) ==
    IF artist[2] = 0
    THEN <<artist[3] % 3, artist[3] % 3>>
    ELSE <<2 - ((artist[3] \div 2) % 3), 0>>

\* artist.contains(event)[0]
Contains(artist, pos) ==
    Offsets(artist) = pos

\* Slots of self.axes that are visible: the display axes, then the sliders.
VisibleSlots ==
    0 .. (n_graphs + Len(criteria) - 1)

\* Mutant of sample_artist_from_event: the last artist that contains the
\* pointer is returned.
sample_artist_from_event_last(inaxes, pos) ==
    IF inaxes = None
       \/ ~ \E d \in Displays : \E i \in 0 .. (DisplayAxes[d] - 1) :
                AxisSlot(d, i) = inaxes[1]
    THEN None
    ELSE LET d == CHOOSE d \in Displays :
                      \E i \in 0 .. (DisplayAxes[d] - 1) :
                          AxisSlot(d, i) = inaxes[1]
             i == inaxes[1] - AxisSlot(d, 0)
             hits == {j \in Samples : Contains(<<d, i, j>>, pos)}
         IN IF ~IsPathCollection(d) \/ hits = {} THEN None
            ELSE LET j == CHOOSE j \in hits : \A j2 \in hits : j >= j2
                 IN <<j, <<d, i, j>>>>

\* _sample_artist_from_event: None, or <<sample, artist>> of the first
\* artist of the hovered sub-axis that contains the pointer.
sample_artist_from_event(inaxes, pos) ==
    IF inaxes = None
       \/ ~ \E d \in Displays : \E i \in 0 .. (DisplayAxes[d] - 1) :
                AxisSlot(d, i) = inaxes[1]
    THEN None
    ELSE LET d == CHOOSE d \in Displays :
                      \E i \in 0 .. (DisplayAxes[d] - 1) :
                          AxisSlot(d, i) = inaxes[1]
             i == inaxes[1] - AxisSlot(d, 0)
             hits == {j \in Samples : Contains(<<d, i, j>>, pos)}
         IN IF ~IsPathCollection(d) \/ hits = {} THEN None
            ELSE LET j == CHOOSE j \in hits : \A j2 \in hits : j <= j2
                 IN <<j, <<d, i, j>>>>

\* _update_annotation(tag, axes=, sample_number=, position=)
update_annotation(t, axes, sample_number, position) ==
    LET label_xpos == IF (position[1] - XLim[1]) > (XLim[2] - position[1])
                      THEN LabelXFlipped ELSE LabelPos
        label_ypos == IF (position[2] - YLim[1]) > (YLim[2] - position[2])
                      THEN LabelYFlipped ELSE LabelPos
    IN [t EXCEPT !.xy = position,
                 !.text = <<sample_number, position[1], position[2]>>,
                 !.axes = axes,
                 !.position = <<label_xpos, label_ypos>>]

\* Mutant of hover: the hovered axis is recorded in widget_index whatever
\* axis it is.
hover_any_axis(s, inaxes, pos) ==
    LET found_artist == sample_artist_from_event(inaxes, pos)
        s1 == IF inaxes # None
              THEN [s EXCEPT !.widget_index = <<inaxes[1] - n_graphs>>]
              ELSE s
    IN IF inaxes # None /\ found_artist # None
       THEN [s1 EXCEPT
                !.tag = [update_annotation(s1.tag, inaxes, found_artist[1],
                                           Offsets(found_artist[2]))
                         EXCEPT !.visible = TRUE],
                !.redraw = TRUE]
       ELSE IF s1.tag.visible
       THEN [s1 EXCEPT !.tag.visible = FALSE, !.redraw = TRUE]
       ELSE s1

\* hover(event) with event.inaxes = inaxes (None or <<slot>>) and the
\* pointer at pos.
hover(s, inaxes, pos) ==
    LET found_artist == sample_artist_from_event(inaxes, pos)
        s1 == IF inaxes # None /\ inaxes[1] >= n_graphs
              THEN [s EXCEPT !.widget_index = <<inaxes[1] - n_graphs>>]
              ELSE s
    IN IF inaxes # None /\ found_artist # None
       THEN [s1 EXCEPT
                !.tag = [update_annotation(s1.tag, inaxes, found_artist[1],
                                           Offsets(found_artist[2]))
                         EXCEPT !.visible = TRUE],
                !.redraw = TRUE]
       ELSE IF s1.tag.visible
       THEN [s1 EXCEPT !.tag.visible = FALSE, !.redraw = TRUE]
       ELSE s1

----------------------------------------------------------------------------
\* The constructor: __init__, _init_axes and _create_sliders.

\* The messages of the errors raised by __init__ and plot().
CountError ==
    "ValueError: Size of criteria, and sliders should be equal"

AxesError ==
    "ValueError: Invalid number of axes."

CriteriaSizeError ==
    "ValueError: Slider criteria should be of the same size as data"

DataSizeError ==
    "ValueError: Length of some data sets are not equal "

\* widget_aspect = 1 / 4, as a fraction.
widget_aspect ==
    <<1, 4>>

\* An axis of a figure as matplotlib creates it.  widget is the slider drawn
\* on the axis and display the display plotted on it (None or <<index>>).
new_axes ==
    [visible |-> TRUE, box_aspect |-> None, cleared |-> FALSE,
     widget |-> None, display |-> None]

\* The fields that __init__ and plot() work on as one record; exc is the
\* exception that is propagating ("" for none).
Building ==
    [displays |-> displays, figure |-> figure, criteria |-> criteria,
     val |-> val, valtext |-> valtext, length_data |-> length_data,
     exc |-> ""]

RECURSIVE axes_before(_, _)
\* sum(len(d.axes) for d in ds[:k])
axes_before(ds, k) ==
    IF k = 0 THEN 0 ELSE Len(ds[k].axes) + axes_before(ds, k - 1)

\* self._n_graphs of an object with the displays ds (len(d.axes) never
\* changes, so the stored sum and the computed one agree).
sum_axes(ds) ==
    axes_before(ds, Len(ds))

\* The criteria argument c is one flat criterion (c.flat, a sequence of
\* numbers) or a sequence of criteria (c.seqs); c.nested is
\* isinstance(criteria[0], Sequence).  len(criteria):
len_criteria(c) ==
    IF c.nested THEN Len(c.seqs) ELSE Len(c.flat)

\* if len(criteria) != 0 and not isinstance(criteria[0], Sequence):
\*     criteria = (criteria,)
wrap_criteria(c) ==
    IF len_criteria(c) # 0 /\ ~c.nested THEN <<c.flat>> ELSE c.seqs

\* The sliders argument s is one widget type (s.type) or a sequence of
\* widget types (s.types); s.sequence is isinstance(sliders, Sequence).
\* if not isinstance(sliders, Sequence): sliders = (sliders,)
wrap_sliders(s) ==
    IF ~s.sequence THEN <<s.type>> ELSE s.types

\* Mutant of count_mismatch: only a surplus of criteria is an error.
count_mismatch_surplus(crit, sl) ==
    Len(crit) > Len(sl)

\* if len(criteria) != len(sliders)
count_mismatch(crit, sl) ==
    Len(crit) # Len(sl)

\* _get_axes_shape(n_axes): a near-square grid that fits n_axes cells,
\* n_cols = ceil(sqrt(n_axes)) and n_rows = ceil(n_axes / n_cols).
get_axes_shape(n_axes) ==
    LET n_cols == CHOOSE c \in 1 .. n_axes :
                      c * c >= n_axes /\ (c - 1) * (c - 1) < n_axes
        n_rows == (n_axes + n_cols - 1) \div n_cols
    IN <<n_rows, n_cols>>

\* _set_figure_layout(fig=, axes=, n_axes=): a figure without axes gets the
\* cells of the grid, a set of existing axes is kept.
set_figure_layout(fig, n_axes) ==
    LET shape == get_axes_shape(n_axes)
    IN [fig EXCEPT
           !.layout = TRUE,
           !.axes = IF Len(fig.axes) = 0
                    THEN [i \in 1 .. (shape[1] * shape[2]) |-> new_axes]
                    ELSE @]

\* Mutant of invalid_number_of_axes: only too many axes are an error.
invalid_number_of_axes_surplus(n, needed) ==
    n > needed

\* if len(axes) not in {0, self._n_graphs + extra}
invalid_number_of_axes(n, needed) ==
    n \notin {0, needed}

RECURSIVE shape_axes(_, _, _, _)
\* for i in range(self._n_graphs, number_axes), from i on: a surplus axis is
\* hidden, a slider axis gets the widget aspect.  used is _n_graphs + extra.
shape_axes(b, i, used, number_axes) ==
    IF b.exc # "" \/ i >= number_axes THEN b
    ELSE IF i >= Len(b.figure.axes) THEN Raise(b, "IndexError")
    ELSE IF i >= used
    THEN shape_axes([b EXCEPT !.figure.axes[i + 1].visible = FALSE],
                    i + 1, used, number_axes)
    ELSE shape_axes([b EXCEPT !.figure.axes[i + 1].box_aspect = widget_aspect],
                    i + 1, used, number_axes)

\* _init_axes(chart, fig=, axes=, extra=): b.figure holds the axes that
\* _get_figure_and_axes returns (none when no axes were supplied).
init_axes(b, extra) ==
    LET needed == sum_axes(b.displays) + extra
        shape == get_axes_shape(needed)
    IN IF invalid_number_of_axes(Len(b.figure.axes), needed)
       THEN Raise(b, AxesError)
       ELSE shape_axes(
                [b EXCEPT !.figure = set_figure_layout(b.figure, needed)],
                sum_axes(b.displays), needed, shape[1] * shape[2])

\* add_slider(ind_ax, criterion, widget_func, label): the widget is created
\* on axis _n_graphs + ind_ax with valinit = 0, and the order of the
\* criterion is appended to self.criteria.
add_slider(b, ind_ax, criterion) ==
    [b EXCEPT
        !.val = Append(@, 0),
        !.valtext = Append(@, 0),
        !.figure.axes[sum_axes(b.displays) + ind_ax + 1].widget = <<ind_ax>>,
        !.criteria = Append(@, add_slider_order(
                                   [i \in Samples |-> criterion[i + 1]]))]

RECURSIVE check_and_add(_, _, _)
\* Mutant of the loops of create_sliders: each criterion is checked just
\* before its slider is added.
check_and_add(b, crit, k) ==
    IF k >= Len(crit) THEN b
    ELSE IF Len(crit[k + 1]) # b.length_data THEN Raise(b, CriteriaSizeError)
    ELSE check_and_add(add_slider(b, k, crit[k + 1]), crit, k + 1)

\* Mutant of create_sliders: one loop that checks and adds.
create_sliders_one_loop(b, crit) ==
    check_and_add(b, crit, 0)

RECURSIVE add_sliders(_, _, _)
\* for k, criterium in enumerate(criteria): self.add_slider(k, criterium, ...)
add_sliders(b, crit, k) ==
    IF k >= Len(crit) THEN b
    ELSE add_sliders(add_slider(b, k, crit[k + 1]), crit, k + 1)

\* _create_sliders(criteria=, sliders=, label_sliders=None)
create_sliders(b, crit) ==
    IF \E k \in 1 .. Len(crit) : Len(crit[k]) # b.length_data
    THEN Raise(b, CriteriaSizeError)
    ELSE add_sliders(b, crit, 0)

\* __init__(displays, criteria, sliders, axes=): b.displays holds the copies
\* of the displays, b.figure the axes supplied; a holds criteria and sliders.
init(b, a) ==
    LET b1 == [b EXCEPT !.length_data = b.displays[1].n_samples,
                        !.criteria = <<>>, !.val = <<>>, !.valtext = <<>>]
        crit == wrap_criteria(a.criteria)
        sl == wrap_sliders(a.sliders)
    IN IF count_mismatch(crit, sl) THEN Raise(b1, CountError)
       ELSE LET b2 == init_axes(b1, Len(crit))
            IN IF b2.exc # "" THEN b2 ELSE create_sliders(b2, crit)

----------------------------------------------------------------------------
\* plot()

\* Mutant of next_index: the slots of a display are not skipped.
next_index_same(int_index, axes_needed) ==
    int_index

\* end_index = axes_needed + int_index
next_index(int_index, axes_needed) ==
    axes_needed + int_index

\* The slots of self.axes[lo:hi] of a list of n axes.
slice_slots(n, lo, hi) ==
    LET top == IF hi < n THEN hi ELSE n
    IN [j \in 1 .. (IF top > lo THEN top - lo ELSE 0) |-> lo + j - 1]

RECURSIVE plot_displays(_, _, _)
\* for disp in self.displays, from display k on:
\*     disp._set_figure_and_axes(axes=self.axes[int_index:end_index])
\*     disp.plot()
plot_displays(b, k, int_index) ==
    IF k > Len(b.displays) THEN b
    ELSE LET axes_needed == Len(b.displays[k].axes)
             end_index == next_index(int_index, axes_needed)
             slots == slice_slots(Len(b.figure.axes), int_index, end_index)
         IN plot_displays(
                [b EXCEPT
                    !.displays[k].axes = slots,
                    !.displays[k].plotted = TRUE,
                    !.figure.axes =
                        [i \in DOMAIN @ |->
                            IF \E j \in DOMAIN slots : slots[j] = i - 1
                            THEN [@[i] EXCEPT !.display = <<k>>]
                            ELSE @[i]]],
                k + 1, end_index)

\* if self._n_graphs > 1: for d in self.displays[1:]:
\*     if d.n_samples() != self.length_data
size_mismatch(ds, n) ==
    /\ sum_axes(ds) > 1
    /\ \E k \in 2 .. Len(ds) : ds[k].n_samples # n

\* plot(): the size check, ax.clear() for every axis, the displays, the
\* canvas callbacks and the observers of the sliders (self._tag, hidden by
\* plot(), is invisible since _create_annotation in this model).
plot(b) ==
    IF size_mismatch(b.displays, b.length_data) THEN Raise(b, DataSizeError)
    ELSE LET b1 == [b EXCEPT
                       !.figure.axes =
                           [i \in DOMAIN @ |->
                               [@[i] EXCEPT !.cleared = TRUE,
                                            !.display = None]]]
             b2 == plot_displays(b1, 1, 0)
         IN [b2 EXCEPT
                !.figure.callbacks =
                    @ \cup {"motion_notify_event", "pick_event"}
                      \cup (IF Len(b2.val) > 0 THEN {"on_changed"} ELSE {})]

----------------------------------------------------------------------------
\* The objects handed to the constructor.

\* A display that has not been given axes of the figure yet: n axes of its
\* own (slot -1), n_samples() = m.
display(n, m) ==
    [axes |-> [j \in 1 .. n |-> 0 - 1], n_samples |-> m, plotted |-> FALSE]

\* A figure with n axes and no layout.
figure_of(n) ==
    [layout |-> FALSE, axes |-> [i \in 1 .. n |-> new_axes], callbacks |-> {}]

\* The record __init__ starts from: the displays ds and n supplied axes.
Fresh(ds, n) ==
    [displays |-> ds, figure |-> figure_of(n), criteria |-> <<>>,
     val |-> <<>>, valtext |-> <<>>, length_data |-> None, exc |-> ""]

\* A criterion given as a function on the samples, as a Python list.
as_list(criterion) ==
    [i \in 1 .. LengthData |-> criterion[i - 1]]

\* The displays of the event model and the arguments its object is built
\* from: the criteria cin, one Slider type per criterion, no axes.
EventDisplays ==
    [d \in Displays |-> display(DisplayAxes[d], LengthData)]

EventArgs(cin) ==
    [criteria |-> [nested |-> TRUE, flat |-> <<>>,
                   seqs |-> [k \in 1 .. Len(cin) |-> as_list(cin[k])]],
     sliders |-> [sequence |-> TRUE, type |-> "",
                  types |-> [k \in 1 .. Len(cin) |-> "Slider"]],
     axes |-> 0]

\* An AgglomerativeClustering that has not been fitted.
Unfitted(metric, linkage) ==
    [metric |-> metric, linkage |-> linkage, estimator |-> None]

----------------------------------------------------------------------------
\* The state after construction and plot().

\* _create_annotation(), then self._tag.set_visible(False) in plot().
create_annotation ==
    [visible |-> FALSE, axes |-> None, text |-> None, xy |-> <<0, 0>>,
     position |-> <<LabelPos, LabelPos>>]

\* Criteria offered to the constructor: the scenario [5, 1, 9], ranks in
\* reverse sample order, and one with a tie.
Scenario ==
    [i \in Samples |-> IF i = 0 THEN 5 ELSE IF i = 1 THEN 1 ELSE 7 + i]

Descending ==
    [i \in Samples |-> LengthData - i]

Tied ==
    [i \in Samples |-> IF i = 0 THEN 2 ELSE 1]

\* The criteria of the two sliders: without ties, and with a tie in one.
CriteriaInputs ==
    {<<Scenario, Descending>>, <<Tied, Descending>>}

\* Raw values a slider can take: valmin = 0 to valmax = length_data - 1.
SliderValues ==
    0 .. ((LengthData - 1) * Units)

\* The values a user drags a slider to here: every whole step, and one value
\* between two steps (the last one before step 2).
DraggedValues ==
    {v \in SliderValues : v % Units = 0 \/ v = 2 * Units - 1}

\* Where the pointer rests in a display axis during the selection events.
PointerPositions ==
    {<<0, 0>>}

Neutral(s) ==
    /\ s.index_clicked = -1
    /\ ~s.clicked
    /\ s.point_clicked = None
    /\ \A x \in Artists : s.alpha[x] = Full

\* What is recorded of a handler run: the event, the state it started in
\* (pre) and how it ended (s).
Event(op, pre, s) ==
    [op |-> op, branch |-> "", arg |-> -1, value |-> -1, artist |-> None,
     same |-> FALSE, neutral |-> Neutral(pre),
     again |-> (op = "restore" /\ last.op = "restore"),
     exc |-> s.exc, redraw |-> s.redraw, pushes |-> s.pushes,
     nested |-> s.nested, unguarded |-> s.unguarded, pos |-> None, call |-> None]

\* The displays draw every artist opaque; no slider axis has been hovered
\* yet, so self.widget_index does not exist.
Init ==
    /\ criterion_in \in CriteriaInputs
    /\ criteria = [k \in 1 .. 2 |-> add_slider_order(criterion_in[k])]
    /\ alpha = [x \in Artists |-> Full]
    /\ point_clicked = None
    /\ index_clicked = -1
    /\ clicked = FALSE
    /\ is_updating = FALSE
    /\ val = [k \in 1 .. 2 |-> 0]
    /\ valtext = [k \in 1 .. 2 |-> 0]
    /\ widget_index = None
    /\ tag = create_annotation
    /\ last = [op |-> "plot", branch |-> "", arg |-> -1, value |-> -1,
               artist |-> None, same |-> FALSE, neutral |-> TRUE,
               again |-> FALSE, exc |-> "", redraw |-> FALSE,
               pushes |-> 0, nested |-> 0, unguarded |-> FALSE,
               pos |-> None, call |-> None]
    /\ args = EventArgs(criterion_in)
    /\ LET b == plot(init(Fresh(EventDisplays, 0), args))
       IN /\ displays = b.displays
          /\ figure = b.figure
          /\ length_data = b.length_data
    /\ clustering = Unfitted("l2_distance", "single")
    /\ coefficient_info = None

\* The fields of the object after a handler has returned or raised.
Commit(s, event) ==
    /\ alpha' = s.alpha
    /\ point_clicked' = s.point_clicked
    /\ index_clicked' = s.index_clicked
    /\ clicked' = s.clicked
    /\ is_updating' = s.is_updating
    /\ val' = s.val
    /\ valtext' = s.valtext
    /\ widget_index' = s.widget_index
    /\ tag' = s.tag
    /\ last' = event
    /\ UNCHANGED <<criterion_in, criteria, args, displays, figure,
                   length_data, clustering, coefficient_info>>

\* A pick event on an artist of some display.
Pick ==
    \E artist \in Artists :
        LET s == pick(Self, artist)
        IN Commit(s, [Event("pick", Self, s) EXCEPT
                         !.branch = pick_branch(Self, artist),
                         !.arg = artist[3],
                         !.artist = artist,
                         !.same = (point_clicked = artist)])

\* A pointer-move event.
Hover ==
    \E inaxes \in {None} \cup {<<k>> : k \in VisibleSlots} :
        \E pos \in PointerPositions :
            LET s == hover(Self, inaxes, pos)
            IN Commit(s, [Event("hover", Self, s) EXCEPT
                             !.branch = IF s.tag.visible THEN "hit" ELSE "miss"])

\* The value of slider k changes to v: Slider.set_val runs the observer.
SliderChanged ==
    \E k \in Sliders :
        \E v \in DraggedValues :
            LET s == set_val(Self, k, v)
            IN Commit(s, [Event("set_val", Self, s) EXCEPT
                             !.branch = IF is_updating THEN "guard" ELSE "run",
                             !.arg = k,
                             !.value = v])

\* A direct call of the public method restore_points_intensity.
RestoreCall ==
    LET s == restore_points_intensity(Self)
    IN Commit(s, Event("restore", Self, s))

Next ==
    \/ Pick
    \/ Hover
    \/ SliderChanged

Spec ==
    Init /\ [][Next]_vars

\* The events together with direct calls of restore_points_intensity.
NextApi ==
    \/ Pick
    \/ Hover
    \/ SliderChanged
    \/ RestoreCall

SpecApi ==
    Init /\ [][NextApi]_vars

\* A pointer-move event anywhere: over a display axis, over a slider axis
\* or outside every axis (event.inaxes is None), at any position.
HoverAt ==
    \E inaxes \in {None} \cup {<<k>> : k \in VisibleSlots} :
        \E pos \in Positions :
            LET s == hover(Self, inaxes, pos)
            IN Commit(s, [Event("hover", Self, s) EXCEPT
                             !.branch = IF s.tag.visible THEN "hit" ELSE "miss",
                             !.arg = IF inaxes = None THEN -1 ELSE inaxes[1],
                             !.pos = pos])

\* The pointer moves over the figure between picks.
NextHover ==
    \/ Pick
    \/ HoverAt

SpecHover ==
    Init /\ [][NextHover]_vars

\* The value of slider k changes to any raw value between valmin and valmax.
SliderMoved ==
    \E k \in Sliders :
        \E v \in SliderValues :
            LET s == set_val(Self, k, v)
            IN Commit(s, [Event("set_val", Self, s) EXCEPT
                             !.branch = IF is_updating THEN "guard" ELSE "run",
                             !.arg = k,
                             !.value = v])

\* The sliders are dragged through their whole range while the pointer
\* moves over the figure.
NextSlider ==
    \/ Hover
    \/ SliderMoved

SpecSlider ==
    Init /\ [][NextSlider]_vars

----------------------------------------------------------------------------
\* add_slider on its own: the object after _init_axes, one criterion to bind.

CriterionValues ==
    1 .. MaxCrit

InitAddSlider ==
    /\ criterion_in \in {<<c>> : c \in [Samples -> CriterionValues]}
    /\ criteria = <<>>
    /\ alpha = [x \in Artists |-> Full]
    /\ point_clicked = None
    /\ index_clicked = -1
    /\ clicked = FALSE
    /\ is_updating = FALSE
    /\ val = <<>>
    /\ valtext = <<>>
    /\ widget_index = None
    /\ tag = create_annotation
    /\ last = [op |-> "init", branch |-> "", arg |-> -1, value |-> -1,
               artist |-> None, same |-> FALSE, neutral |-> TRUE,
               again |-> FALSE, exc |-> "", redraw |-> FALSE,
               pushes |-> 0, nested |-> 0, unguarded |-> FALSE,
               pos |-> None, call |-> None]
    /\ args = [EventArgs(criterion_in) EXCEPT
                   !.criteria = [nested |-> FALSE,
                                 flat |-> as_list(criterion_in[1]),
                                 seqs |-> <<>>],
                   !.sliders = [sequence |-> FALSE, type |-> "Slider",
                                types |-> <<>>]]
    /\ LET b == init_axes(Fresh(EventDisplays, 0), 1)
       IN /\ displays = b.displays
          /\ figure = b.figure
    /\ length_data = LengthData
    /\ clustering = Unfitted("l2_distance", "single")
    /\ coefficient_info = None

\* add_slider(k, criterion, ...) for the next criterion: the widget is
\* appended with valinit = 0 and the order is appended to self.criteria.
AddSlider ==
    /\ Len(criteria) < Len(criterion_in)
    /\ criteria' = Append(criteria,
                          add_slider_order(criterion_in[Len(criteria) + 1]))
    /\ val' = Append(val, 0)
    /\ valtext' = Append(valtext, 0)
    /\ figure' = add_slider(Building, Len(criteria),
                            as_list(criterion_in[Len(criteria) + 1])).figure
    /\ last' = [last EXCEPT !.op = "add_slider", !.arg = Len(criteria)]
    /\ UNCHANGED <<criterion_in, alpha, point_clicked, index_clicked, clicked,
                   is_updating, widget_index, tag, args, displays,
                   length_data, clustering, coefficient_info>>

NextAddSlider ==
    AddSlider

SpecAddSlider ==
    InitAddSlider /\ [][NextAddSlider]_vars

----------------------------------------------------------------------------
\* Construction and plot(): the arguments of the constructor vary.

\* n_samples() of a display and len() of a criterion: right, and one short.
SampleCounts ==
    {LengthData - 1, LengthData}

\* len(d.axes) of a display.
AxesCounts ==
    {DisplayAxes[d] : d \in Displays}

\* The displays argument: the first display reports LengthData samples.
DisplaysInputs ==
    {ds \in UNION {[1 .. n -> {display(a, m) : a \in AxesCounts,
                                               m \in SampleCounts}] :
                      n \in 1 .. MaxDisplays} :
        ds[1].n_samples = LengthData}

\* A criterion of n values.
CriterionOf(n) ==
    [i \in 1 .. n |-> n + 1 - i]

\* The criteria argument: one flat criterion, or a sequence of criteria.
CriteriaArgs ==
    {[nested |-> FALSE, flat |-> CriterionOf(n), seqs |-> <<>>] :
        n \in SampleCounts}
    \cup {[nested |-> TRUE, flat |-> <<>>, seqs |-> c] :
             c \in UNION {[1 .. n -> {CriterionOf(m) : m \in SampleCounts}] :
                             n \in 0 .. MaxCriteria}}

\* The sliders argument: one widget type, or a sequence of widget types.
SlidersArgs ==
    {[sequence |-> FALSE, type |-> "Slider", types |-> <<>>]}
    \cup {[sequence |-> TRUE, type |-> "",
           types |-> [k \in 1 .. n |-> "Slider"]] :
             n \in 0 .. MaxCriteria}

\* Numbers of axes supplied with axes=: none, the number needed, one less
\* and one more.
AxesArgs(ds, c) ==
    LET needed == sum_axes(ds) + Len(wrap_criteria(c))
    IN {0, needed - 1, needed, needed + 1}

\* The state at the call of the constructor: no object exists yet.
InitBuild ==
    /\ criterion_in = <<>>
    /\ criteria = <<>>
    /\ alpha = [x \in Artists |-> Full]
    /\ point_clicked = None
    /\ index_clicked = -1
    /\ clicked = FALSE
    /\ is_updating = FALSE
    /\ val = <<>>
    /\ valtext = <<>>
    /\ widget_index = None
    /\ tag = create_annotation
    /\ last = [op |-> "new", branch |-> "", arg |-> -1, value |-> -1,
               artist |-> None, same |-> FALSE, neutral |-> TRUE,
               again |-> FALSE, exc |-> "", redraw |-> FALSE,
               pushes |-> 0, nested |-> 0, unguarded |-> FALSE,
               pos |-> None, call |-> None]
    /\ displays \in DisplaysInputs
    /\ \E c \in CriteriaArgs : \E s \in SlidersArgs :
           \E n \in AxesArgs(displays, c) :
               /\ args = [criteria |-> c, sliders |-> s, axes |-> n]
               /\ figure = figure_of(n)
    /\ length_data = None
    /\ clustering = Unfitted("l2_distance", "single")
    /\ coefficient_info = None

\* The fields of the object when __init__ or plot() has returned or raised.
CommitBuild(b, op) ==
    /\ displays' = b.displays
    /\ figure' = b.figure
    /\ criteria' = b.criteria
    /\ val' = b.val
    /\ valtext' = b.valtext
    /\ length_data' = b.length_data
    /\ last' = [last EXCEPT !.op = op, !.exc = b.exc]
    /\ UNCHANGED <<criterion_in, alpha, point_clicked, index_clicked, clicked,
                   is_updating, widget_index, tag, args, clustering,
                   coefficient_info>>

\* MultipleDisplay(displays, criteria, sliders, axes=...)
Construct ==
    /\ last.op = "new"
    /\ CommitBuild(init(Building, args), "__init__")

\* The constructor has returned an object.
Constructed ==
    /\ last.op # "new"
    /\ ~(last.op = "__init__" /\ last.exc # "")

\* The data of a display is replaced between construction and plot():
\* display k now reports m samples.
Resample ==
    /\ Constructed
    /\ \E k \in 1 .. Len(displays) :
           \E m \in SampleCounts \ {displays[k].n_samples} :
               CommitBuild([Building EXCEPT !.displays[k].n_samples = m],
                           "resample")

\* A call of plot().
Plot ==
    /\ Constructed
    /\ CommitBuild(plot(Building), "plot")

NextBuild ==
    \/ Construct
    \/ Resample
    \/ Plot

SpecBuild ==
    InitBuild /\ [][NextBuild]_vars

----------------------------------------------------------------------------
\* AgglomerativeClustering (skfda/ml/clustering/_hierarchical.py).

\* skfda.misc.metrics.PRECOMPUTED
PRECOMPUTED ==
    "PRECOMPUTED"

\* _parse_metric(metric): the string "precomputed" stands for PRECOMPUTED.
parse_metric(metric) ==
    IF metric = "precomputed" THEN PRECOMPUTED ELSE metric

\* The values of the enum LinkageCriterion ("ward" is not one of them).
LinkageCriterion ==
    {"complete", "average", "single"}

\* The metric and linkage parameters an object is created with.
Metrics ==
    {PRECOMPUTED, "precomputed", "l2_distance", "l1_distance"}

Linkages ==
    LinkageCriterion \cup {"ward"}

\* The inputs of fit: matrix is "X" for the argument itself.
Data ==
    [matrix : {"X"}, id : 1 .. MaxData]

\* PairwiseMetric(metric)(X): the matrix of the distances between the
\* samples of X.
PairwiseMetric(metric, X) ==
    [X EXCEPT !.matrix = metric]

\* The object during a call; exc is the exception that is propagating.
Clustering ==
    [metric |-> clustering.metric, linkage |-> clustering.linkage,
     estimator |-> clustering.estimator, exc |-> ""]

\* _init_estimator(): LinkageCriterion(self.linkage) raises ValueError for
\* a value that is not in the enum; the sklearn estimator is not fitted.
init_estimator(c) ==
    IF c.linkage \notin LinkageCriterion THEN Raise(c, "ValueError")
    ELSE [c EXCEPT !.estimator = <<[affinity |-> "precomputed",
                                    linkage |-> c.linkage,
                                    data |-> None]>>]

\* The body shared by fit(X) and fit_predict(X): the local variable data is
\* bound only when the metric is not PRECOMPUTED, and then read.
fit(c, X) ==
    LET c1 == init_estimator(c)
        metric == parse_metric(c1.metric)
    IN IF c1.exc # "" THEN c1
       ELSE IF metric # PRECOMPUTED
       THEN [c1 EXCEPT !.estimator[1].data = <<PairwiseMetric(metric, X)>>]
       ELSE Raise(c1, "UnboundLocalError")

\* fit_predict(X)
fit_predict(c, X) ==
    fit(c, X)

\* Attribute names looked up on the object: two set by __init__, the
\* estimator, and two the sklearn estimator gets when it is fitted.
Attributes ==
    {"metric", "linkage", "_estimator", "labels_", "n_leaves_"}

\* Normal lookup on the wrapper: the attributes __init__ assigns, and
\* _estimator once _init_estimator has assigned it.
InstanceHas(c, attr) ==
    \/ attr \in {"metric", "linkage"}
    \/ attr = "_estimator" /\ c.estimator # None

\* Normal lookup on the sklearn estimator: its parameters, and the fitted
\* attributes once its fit has run.
EstimatorHas(e, attr) ==
    \/ attr \in {"linkage", "affinity"}
    \/ attr \in {"labels_", "n_leaves_"} /\ e.data # None

RECURSIVE getattr(_, _, _)
\* The evaluation of self.attr with depth frames of __getattr__ on the
\* stack: normal lookup, and when it fails __getattr__(attr), which first
\* evaluates self._estimator and then looks attr up on it.  The interpreter
\* raises RecursionError when the stack is MaxDepth deep.
getattr(c, attr, depth) ==
    IF InstanceHas(c, attr) THEN [exc |-> "", depth |-> depth]
    ELSE IF depth >= MaxDepth
    THEN [exc |-> "RecursionError", depth |-> depth]
    ELSE LET e == getattr(c, "_estimator", depth + 1)
         IN IF e.exc # "" THEN e
            ELSE IF EstimatorHas(c.estimator[1], attr)
            THEN [exc |-> "", depth |-> e.depth]
            ELSE [exc |-> "AttributeError", depth |-> e.depth]

\* No MultipleDisplay exists; an unfitted clustering object does.
InitCluster ==
    /\ criterion_in = <<>>
    /\ criteria = <<>>
    /\ alpha = [x \in Artists |-> Full]
    /\ point_clicked = None
    /\ index_clicked = -1
    /\ clicked = FALSE
    /\ is_updating = FALSE
    /\ val = <<>>
    /\ valtext = <<>>
    /\ widget_index = None
    /\ tag = create_annotation
    /\ last = [op |-> "new", branch |-> "", arg |-> -1, value |-> -1,
               artist |-> None, same |-> FALSE, neutral |-> TRUE,
               again |-> FALSE, exc |-> "", redraw |-> FALSE,
               pushes |-> 0, nested |-> 0, unguarded |-> FALSE,
               pos |-> None, call |-> None]
    /\ args = EventArgs(<<>>)
    /\ displays = <<>>
    /\ figure = figure_of(0)
    /\ length_data = None
    /\ \E metric \in Metrics : \E linkage \in Linkages :
           clustering = Unfitted(metric, linkage)
    /\ coefficient_info = None

\* The object and the record of the call when fit or fit_predict has
\* returned or raised.
CommitCluster(c, op, X) ==
    /\ clustering' = [metric |-> c.metric, linkage |-> c.linkage,
                      estimator |-> c.estimator]
    /\ last' = [last EXCEPT !.op = op, !.arg = X.id, !.exc = c.exc]
    /\ UNCHANGED <<criterion_in, criteria, alpha, point_clicked,
                   index_clicked, clicked, is_updating, val, valtext,
                   widget_index, tag, args, displays, figure, length_data,
                   coefficient_info>>

Fit ==
    \E X \in Data : CommitCluster(fit(Clustering, X), "fit", X)

FitPredict ==
    \E X \in Data :
        CommitCluster(fit_predict(Clustering, X), "fit_predict", X)

\* An attribute of the object is read; nested records how many frames of
\* __getattr__ were stacked.
GetAttr ==
    \E attr \in Attributes :
        LET r == getattr(Clustering, attr, 0)
        IN /\ last' = [last EXCEPT !.op = "getattr", !.branch = attr,
                                   !.arg = -1, !.exc = r.exc,
                                   !.nested = r.depth]
           /\ UNCHANGED <<criterion_in, criteria, alpha, point_clicked,
                          index_clicked, clicked, is_updating, val, valtext,
                          widget_index, tag, args, displays, figure,
                          length_data, clustering, coefficient_info>>

NextCluster ==
    \/ Fit
    \/ FitPredict
    \/ GetAttr

SpecCluster ==
    InitCluster /\ [][NextCluster]_vars

----------------------------------------------------------------------------
\* CoefficientInfoFDataBasis: the regression matrix and the inner product.

Bases ==
    1 .. MaxBasis

\* FDataBasis objects: a basis and an array of coefficients.
FDataBases ==
    [basis : Bases, coefficients : 1 .. MaxCoef]

\* a.inner_product_matrix(b): the matrix whose entry (i, j) is the inner
\* product of element i of basis a and element j of basis b.
inner_product_matrix(a, b) ==
    [rows |-> a, cols |-> b]

\* matrix.T
Transpose(matrix) ==
    [rows |-> matrix.cols, cols |-> matrix.rows]

\* CoefficientInfoFDataBasis(basis=basis): inner_basis is not assigned.
CoefficientInfoFDataBasis(basis) ==
    [basis |-> basis, inner_basis |-> None]

\* The object during a call: its fields, the value returned and the
\* exception that is propagating.
CoefInfo ==
    [basis |-> coefficient_info[1].basis,
     inner_basis |-> coefficient_info[1].inner_basis,
     result |-> None, exc |-> ""]

\* regression_matrix(X, y): stores X.basis.inner_product_matrix(self.basis)
\* in self.inner_basis and returns xcoef @ self.inner_basis.
regression_matrix(c, X) ==
    LET xcoef == X.coefficients
        c1 == [c EXCEPT
                  !.inner_basis = <<inner_product_matrix(X.basis, c.basis)>>]
    IN [c1 EXCEPT !.result = <<[left |-> xcoef,
                                matrix |-> c1.inner_basis[1]]>>]

\* Mutant of inner_product: the matrix is computed from the basis of X.
inner_product_of_X(c, coefs, X) ==
    [c EXCEPT !.result =
        <<[left |-> coefs.coefficients,
           matrix |-> Transpose(inner_product_matrix(X.basis, c.basis)),
           right |-> X.coefficients]>>]

\* inner_product(coefs, X): the product of the coefficients of coefs and X
\* through self.inner_basis.T; reading self.inner_basis raises
\* AttributeError while regression_matrix has never assigned it.
inner_product(c, coefs, X) ==
    IF c.inner_basis = None THEN Raise(c, "AttributeError")
    ELSE [c EXCEPT !.result =
             <<[left |-> coefs.coefficients,
                matrix |-> Transpose(c.inner_basis[1]),
                right |-> X.coefficients]>>]

\* No MultipleDisplay exists; a CoefficientInfoFDataBasis does, made by
\* coefficient_info_from_covariate for some basis.
InitCoef ==
    /\ criterion_in = <<>>
    /\ criteria = <<>>
    /\ alpha = [x \in Artists |-> Full]
    /\ point_clicked = None
    /\ index_clicked = -1
    /\ clicked = FALSE
    /\ is_updating = FALSE
    /\ val = <<>>
    /\ valtext = <<>>
    /\ widget_index = None
    /\ tag = create_annotation
    /\ last = [op |-> "new", branch |-> "", arg |-> -1, value |-> -1,
               artist |-> None, same |-> FALSE, neutral |-> TRUE,
               again |-> FALSE, exc |-> "", redraw |-> FALSE,
               pushes |-> 0, nested |-> 0, unguarded |-> FALSE,
               pos |-> None,
               call |-> <<[X |-> None, coefs |-> None, result |-> None,
                           covariate |-> None]>>]
    /\ args = EventArgs(<<>>)
    /\ displays = <<>>
    /\ figure = figure_of(0)
    /\ length_data = None
    /\ clustering = Unfitted("l2_distance", "single")
    /\ \E basis \in Bases :
           coefficient_info = <<CoefficientInfoFDataBasis(basis)>>

\* The object and the record of the call when a method has returned or
\* raised; covariate is the covariate last passed to regression_matrix on
\* this object, if any.
CommitCoef(c, op, coefs, X, covariate) ==
    /\ coefficient_info' = <<[basis |-> c.basis,
                              inner_basis |-> c.inner_basis]>>
    /\ last' = [last EXCEPT !.op = op, !.exc = c.exc,
                            !.call = <<[X |-> <<X>>, coefs |-> coefs,
                                        result |-> c.result,
                                        covariate |-> covariate]>>]
    /\ UNCHANGED <<criterion_in, criteria, alpha, point_clicked,
                   index_clicked, clicked, is_updating, val, valtext,
                   widget_index, tag, args, displays, figure, length_data,
                   clustering>>

\* coefficient_info_from_covariate(X, y, basis=basis) replaces the object
\* by a new one; basis None stands for the basis of X, and 0 is a value
\* that is not a Basis: TypeError, and the object in use stays.
FromCovariate ==
    \E X \in FDataBases :
        \E basis \in {None} \cup {<<b>> : b \in {0} \cup Bases} :
            LET b == IF basis = None THEN X.basis ELSE basis[1]
                new == CoefficientInfoFDataBasis(b)
            IN IF b \notin Bases
               THEN CommitCoef(Raise(CoefInfo, "TypeError"), "new", None, X,
                               last.call[1].covariate)
               ELSE CommitCoef([basis |-> new.basis,
                                inner_basis |-> new.inner_basis,
                                result |-> None, exc |-> ""],
                               "new", None, X, None)

RegressionMatrix ==
    \E X \in FDataBases :
        CommitCoef(regression_matrix(CoefInfo, X), "regression_matrix",
                   None, X, <<X>>)

\* inner_product(coefs, X) with coefs in the basis of the coefficient.
InnerProduct ==
    \E X \in FDataBases :
        \E k \in 1 .. MaxCoef :
            LET coefs == [basis |-> coefficient_info[1].basis,
                          coefficients |-> k]
            IN CommitCoef(inner_product(CoefInfo, coefs, X),
                          "inner_product", <<coefs>>, X,
                          last.call[1].covariate)

NextCoef ==
    \/ FromCovariate
    \/ RegressionMatrix
    \/ InnerProduct

SpecCoef ==
    InitCoef /\ [][NextCoef]_vars

----------------------------------------------------------------------------
\* Properties.

\* Every criterion handed to the constructor has pairwise distinct values.
DistinctCriteria ==
    \A k \in 1 .. Len(criterion_in) :
        \A i, j \in Samples :
            i # j => criterion_in[k][i] # criterion_in[k][j]

\* C1: with criteria of distinct values, in every state reached by pick,
\* hover and slider events each sample has one opacity in all displays, and
\* either nothing is selected and every artist is at 1.0, or sample
\* index_clicked is at 1.0 and every other sample at 0.1.
CrossViewConsistency ==
    DistinctCriteria =>
        /\ \A x, y \in Artists : x[3] = y[3] => alpha[x] = alpha[y]
        /\ \/ /\ index_clicked = -1
              /\ \A x \in Artists : alpha[x] = Full
           \/ /\ index_clicked \in Samples
              /\ \A x \in Artists :
                     alpha[x] = IF x[3] = index_clicked THEN Full ELSE Dim

\* A slider-driven change of selection, shown in the second display.
CrossViewConsistencyWitness ==
    /\ DistinctCriteria
    /\ last.op = "set_val" /\ last.branch = "run" /\ last.exc = ""
    /\ ~last.neutral
    /\ index_clicked = 1
    /\ alpha[<<2, 0, 1>>] = Full
    /\ alpha[<<2, 0, 0>>] = Dim

\* C2: from the neutral state, picking an artist of sample i and then
\* picking sample i again (the same artist or another artist of sample i)
\* returns every artist to opacity 1.0, index_clicked to -1 and
\* point_clicked to None.
PickRoundTrip ==
    [][(/\ last.op = "pick" /\ last.branch = "first" /\ last.neutral
        /\ last'.op = "pick" /\ last'.arg = last.arg)
       => /\ \A x \in Artists : alpha'[x] = Full
          /\ index_clicked' = -1
          /\ point_clicked' = None]_vars

\* The second pick was on another artist of the selected sample, in the
\* other display, and restored the neutral state.
PickRoundTripWitness ==
    /\ last.op = "pick" /\ last.branch = "other" /\ ~last.same
    /\ last.artist = <<2, 0, 1>>
    /\ index_clicked = -1 /\ point_clicked = None /\ ~clicked
    /\ \A x \in Artists : alpha[x] = Full

\* C3: after a pick or an unguarded value_updated that completes with a
\* sample selected, every slider k (the moved one included) is at a whole
\* position p_k with order_k[p_k] = index_clicked.
SliderConsistency ==
    (/\ last.op \in {"pick", "set_val"}
     /\ last.branch # "guard"
     /\ last.exc = ""
     /\ index_clicked # -1)
    => \A k \in Sliders :
           /\ val[k + 1] % Units = 0
           /\ (val[k + 1] \div Units) < Len(criteria[k + 1])
           /\ criteria[k + 1][(val[k + 1] \div Units) + 1] = index_clicked

\* Slider 0 was dragged between two steps and both sliders were moved to
\* the positions of the selected sample.
SliderConsistencyWitness ==
    /\ last.op = "set_val" /\ last.branch = "run" /\ last.exc = ""
    /\ last.arg = 0 /\ last.value = Units + 1 /\ widget_index = <<0>>
    /\ index_clicked = 0
    /\ val = <<Units, 2 * Units>>
    /\ criteria = <<<<1, 0, 2>>, <<2, 1, 0>>>>

\* C4: while is_updating is true an invocation of value_updated changes
\* nothing: of the whole slider change only the slider's own value and the
\* text the slider shows for it differ afterwards.
GuardNoOp ==
    [][(last'.op = "set_val" /\ last'.branch = "guard")
       => /\ UNCHANGED <<index_clicked, clicked, point_clicked, alpha,
                         is_updating, widget_index, tag>>
          /\ is_updating
          /\ \A k \in Sliders :
                 IF k = last'.arg
                 THEN /\ val'[k + 1] = last'.value
                      /\ valtext'[k + 1] = last'.value
                 ELSE /\ val'[k + 1] = val[k + 1]
                      /\ valtext'[k + 1] = valtext[k + 1]]_vars

\* A slider change arrived while is_updating was true and a sample was
\* selected: the step it asks for is not the selected sample's position.
GuardNoOpWitness ==
    /\ last.op = "set_val" /\ last.branch = "guard"
    /\ is_updating
    /\ index_clicked \in Samples
    /\ widget_index = <<0>> /\ last.arg = 0
    /\ Discretize(last.value) < Len(criteria[1])
    /\ criteria[1][Discretize(last.value) + 1] # index_clicked

\* C5: for every criterion of length length_data, ties included, the order
\* stored by add_slider is a permutation of the sample indices, sorted
\* ascending by criterion value with ties broken by the original index.
AddSliderStablePermutation ==
    last.op = "add_slider" =>
        LET order == criteria[Len(criteria)]
            criterion == criterion_in[Len(criteria)]
        IN /\ Len(order) = LengthData
           /\ \A i \in Samples : \E p \in 1 .. Len(order) : order[p] = i
           /\ \A p, q \in 1 .. Len(order) :
                  p < q =>
                      \/ criterion[order[p]] < criterion[order[q]]
                      \/ /\ criterion[order[p]] = criterion[order[q]]
                         /\ order[p] < order[q]

\* C6: the order of a slider lists the sample indices by ascending criterion
\* value ([5, 1, 9] gives [1, 0, 2]), and an unguarded value_updated for the
\* slider at step p selects order[p], for every p in [0, length_data).  A
\* step onto the sample that is selected already may clear the selection.
OrderLookup ==
    [][(/\ last'.op = "set_val" /\ last'.branch = "run"
        /\ widget_index = <<last'.arg>>)
       => LET order == criteria[last'.arg + 1]
              criterion == criterion_in[last'.arg + 1]
              p == Discretize(last'.value)
          IN /\ \A i \in Samples : \E q \in 1 .. Len(order) : order[q] = i
             /\ \A q, r \in 1 .. Len(order) :
                    q < r => criterion[order[q]] <= criterion[order[r]]
             /\ (LengthData = 3 /\ criterion[0] = 5 /\ criterion[1] = 1
                 /\ criterion[2] = 9) => (order = <<1, 0, 2>>)
             /\ p < Len(order)
             /\ \/ index_clicked' = order[p + 1]
                \/ index_clicked = order[p + 1]]_vars

\* C7: from the neutral state, picking the artist of sample i in one display
\* sets index_clicked to i, leaves sample i at 1.0 and puts every other
\* sample at 0.1 in every display.
FirstPickDimsEveryDisplay ==
    (last.op = "pick" /\ last.neutral)
    => /\ index_clicked = last.arg
       /\ \A x \in Artists :
              alpha[x] = IF x[3] = last.arg THEN Full ELSE Dim

\* Sample 2 was picked in the first display and the other samples are
\* dimmed in the second display.
FirstPickDimsEveryDisplayWitness ==
    /\ last.op = "pick" /\ last.neutral /\ last.branch = "first"
    /\ last.artist = <<1, 1, 2>>
    /\ index_clicked = 2
    /\ alpha[<<2, 0, 0>>] = Dim /\ alpha[<<2, 0, 1>>] = Dim
    /\ alpha[<<2, 0, 2>>] = Full

\* C8: with clicked false and sample i selected, picking an artist of
\* another sample j sets point_clicked to that artist and index_clicked to
\* j, puts j at 1.0 and i at 0.1 in every display and leaves the opacity of
\* every other sample unchanged.
RepickFrame ==
    [][(/\ last'.op = "pick"
        /\ ~clicked
        /\ index_clicked \in Samples
        /\ last'.arg # index_clicked)
       => /\ point_clicked' = last'.artist
          /\ index_clicked' = last'.arg
          /\ \A x \in Artists :
                 alpha'[x] = IF x[3] = last'.arg THEN Full
                             ELSE IF x[3] = index_clicked THEN Dim
                             ELSE alpha[x]]_vars

\* C9 as stated, for criteria of distinct values: with clicked true, after
\* the next pick point_clicked is the picked artist and clicked is false.
ClickedBranchKeepsArtist ==
    [][(DistinctCriteria /\ last'.op = "pick" /\ clicked)
       => /\ point_clicked' = last'.artist
          /\ (last'.exc = "" => ~clicked')]_vars

\* C9 as amended: with clicked true the next pick takes the clicked branch
\* whatever point_clicked is.  The fan-out runs with the slider-selected
\* sample as the old index: picking another sample j makes point_clicked the
\* picked artist, index_clicked j, j 1.0 and the old sample 0.1; picking the
\* slider-selected sample restores every artist to 1.0 and clears
\* index_clicked and point_clicked.  clicked is false when the handler
\* returns.
ClickedBranch ==
    [][(last'.op = "pick" /\ clicked)
       => /\ last'.branch = "clicked"
          /\ IF last'.arg = index_clicked
             THEN /\ point_clicked' = None
                  /\ index_clicked' = -1
                  /\ \A x \in Artists : alpha'[x] = Full
             ELSE /\ point_clicked' = last'.artist
                  /\ index_clicked' = last'.arg
                  /\ \A x \in Artists :
                         alpha'[x] = IF x[3] = last'.arg THEN Full
                                     ELSE IF x[3] = index_clicked THEN Dim
                                     ELSE alpha[x]
          /\ (last'.exc = "" => ~clicked')]_vars

\* After a slider-driven selection the artist remembered from an earlier
\* pick was picked again, and the pick selected its sample.
ClickedBranchWitness ==
    /\ last.op = "pick" /\ last.branch = "clicked" /\ last.same
    /\ last.exc = ""
    /\ point_clicked = last.artist
    /\ index_clicked = last.arg
    /\ ~clicked

\* C10: restore_points_intensity called twice in a row from any state leaves
\* every artist at 1.0, index_clicked -1, point_clicked None, every slider
\* at 0 and is_updating false, and the second call changes nothing.
RestoreIdempotent ==
    [][(last'.op = "restore")
       => /\ \A x \in Artists : alpha'[x] = Full
          /\ index_clicked' = -1
          /\ point_clicked' = None
          /\ \A k \in Sliders : val'[k + 1] = 0
          /\ ~is_updating'
          /\ last'.exc = ""
          /\ (last.op = "restore" =>
                 UNCHANGED <<alpha, point_clicked, index_clicked, clicked,
                             is_updating, val, valtext, widget_index,
                             tag>>)]_vars

\* The second of two calls in a row, made while clicked was still true.
RestoreIdempotentWitness ==
    /\ last.op = "restore" /\ last.again
    /\ clicked
    /\ index_clicked = -1 /\ point_clicked = None /\ ~is_updating
    /\ val = <<0, 0>>
    /\ \A x \in Artists : alpha[x] = Full

----------------------------------------------------------------------------
\* Construction and plot().

\* The number of criteria and of slider types given to the constructor, a
\* flat criterion and a single widget type counting as one.
NumCriteria ==
    IF args.criteria.nested THEN Len(args.criteria.seqs) ELSE 1

NumSliders ==
    IF args.sliders.sequence THEN Len(args.sliders.types) ELSE 1

\* Some criterion given to the constructor has not length_data values.
SomeCriterionMisfit ==
    IF args.criteria.nested
    THEN \E k \in 1 .. Len(args.criteria.seqs) :
             Len(args.criteria.seqs[k]) # length_data
    ELSE Len(args.criteria.flat) # length_data

\* No slider exists: no widget, no stored order, no axis with a widget.
NoSlider ==
    /\ val = <<>>
    /\ valtext = <<>>
    /\ criteria = <<>>
    /\ \A i \in DOMAIN figure.axes : figure.axes[i].widget = None

\* C11: the constructor raises the count error exactly when the number of
\* criteria differs from the number of slider types, a flat criterion and a
\* single widget type counting as one; it gets past the check only when
\* the two numbers are equal.
CountCheck ==
    last.op = "__init__" =>
        (last.exc = CountError <=> NumCriteria # NumSliders)

\* One flat criterion was given with two slider types.
CountCheckWitness ==
    /\ last.op = "__init__"
    /\ last.exc = CountError
    /\ ~args.criteria.nested
    /\ args.sliders.sequence
    /\ Len(args.sliders.types) = 2

\* C12: when some criterion, whatever its position, has a length different
\* from length_data, the constructor fails and no slider has been created,
\* not even for the well-sized criteria before the bad one.
CriterionLengthCheck ==
    (last.op = "__init__" /\ SomeCriterionMisfit) =>
        /\ last.exc # ""
        /\ NoSlider

\* The second of two criteria is short, the first is well sized.
CriterionLengthCheckWitness ==
    /\ last.op = "__init__"
    /\ last.exc = CriteriaSizeError
    /\ args.criteria.nested
    /\ Len(args.criteria.seqs) = 2
    /\ Len(args.criteria.seqs[1]) = length_data
    /\ Len(args.criteria.seqs[2]) # length_data
    /\ NoSlider

\* C13: a constructor that raises one of the three configuration errors
\* has set no figure layout, hidden no axis, given no axis the slider
\* aspect and created no slider.
FailFast ==
    [][(/\ last'.op = "__init__"
        /\ last'.exc \in {CountError, AxesError, CriteriaSizeError})
       => /\ figure' = figure
          /\ val' = val
          /\ criteria' = criteria]_vars

\* C14: when axes are supplied and their number is not the sum of the
\* displays' axis counts plus the number of criteria, the constructor
\* fails with a configuration error.
AxesCountCheck ==
    (/\ last.op = "__init__"
     /\ args.axes # 0
     /\ args.axes # sum_axes(displays) + NumCriteria)
    => last.exc \in {CountError, AxesError}

\* One axis too few was supplied; the numbers of criteria and sliders agree.
AxesCountCheckWitness ==
    /\ last.op = "__init__"
    /\ last.exc = AxesError
    /\ NumCriteria = NumSliders
    /\ args.axes > 0
    /\ args.axes = sum_axes(displays) + NumCriteria - 1

\* C15: plot() raises the size error when any display, the first included,
\* reports a sample count different from length_data, and then no axis is
\* cleared, no display plotted and no callback registered.
PlotSizeCheck ==
    [][(/\ last'.op = "plot"
        /\ \E k \in 1 .. Len(displays) :
               displays[k].n_samples # length_data)
       => /\ last'.exc = DataSizeError
          /\ figure' = figure
          /\ displays' = displays]_vars

\* C16: after plot() display k holds the slots a_k .. a_k + n_k - 1 of
\* self.axes, a_k being the number of axes of the displays before it, each
\* of these axes shows display k, slider j is on slot sum(n_k) + j, and the
\* slots in use are the first sum(n_k) + len(criteria) ones.
SlotAssignment ==
    (last.op = "plot" /\ last.exc = "") =>
        /\ \A k \in 1 .. Len(displays) :
               /\ displays[k].plotted
               /\ \A j \in 1 .. Len(displays[k].axes) :
                      /\ displays[k].axes[j]
                             = axes_before(displays, k - 1) + j - 1
                      /\ figure.axes[displays[k].axes[j] + 1].display = <<k>>
        /\ Len(val) = NumCriteria
        /\ \A j \in 0 .. (Len(val) - 1) :
               figure.axes[sum_axes(displays) + j + 1].widget = <<j>>
        /\ {i \in DOMAIN figure.axes :
               figure.axes[i].display # None \/ figure.axes[i].widget # None}
               = 1 .. (sum_axes(displays) + NumCriteria)

\* Two displays of two axes each and two sliders: six slots in use.
SlotAssignmentWitness ==
    /\ last.op = "plot" /\ last.exc = ""
    /\ Len(displays) = 2
    /\ displays[1].axes = <<0, 1>>
    /\ displays[2].axes = <<2, 3>>
    /\ Len(val) = 2
    /\ figure.axes[6].widget = <<1>>

----------------------------------------------------------------------------
\* AgglomerativeClustering.

\* C17: with a linkage of the enum, fit and fit_predict return normally and
\* the wrapped estimator has been fitted with X itself when the metric is
\* PRECOMPUTED or "precomputed", and with the matrix of pairwise distances
\* of X under the metric otherwise.
PrecomputedFit ==
    (/\ last.op \in {"fit", "fit_predict"}
     /\ clustering.linkage \in LinkageCriterion)
    => /\ last.exc = ""
       /\ clustering.estimator # None
       /\ clustering.estimator[1].data =
              <<[matrix |-> IF clustering.metric \in {PRECOMPUTED, "precomputed"}
                            THEN "X" ELSE clustering.metric,
                 id |-> last.arg]>>

----------------------------------------------------------------------------
\* Slider-driven selection and the update guard.

SameSampleRestores ==
    [][(/\ last'.op = "set_val" /\ last'.branch = "run"
        /\ widget_index # None
        /\ (last'.value \div Units) < Len(criteria[widget_index[1] + 1])
        /\ criteria[widget_index[1] + 1][(last'.value \div Units) + 1]
               = index_clicked)
       => /\ last'.exc = ""
          /\ \A x \in Artists : alpha'[x] = Full
          /\ index_clicked' = -1
          /\ point_clicked' = None
          /\ \A k \in Sliders : val'[k + 1] = 0
          /\ ~clicked']_vars

\* A slider was dragged to a value between two steps while a sample was
\* selected, and the selection is gone.
SameSampleRestoresWitness ==
    /\ last.op = "set_val" /\ last.branch = "run" /\ last.exc = ""
    /\ ~last.neutral
    /\ last.value = 2 * Units - 1
    /\ index_clicked = -1
    /\ point_clicked = None
    /\ ~clicked
    /\ \A x \in Artists : alpha[x] = Full
    /\ \A k \in Sliders : val[k + 1] = 0

\* C20: between two handlers is_updating is false, and no handler has
\* issued a slider set_val while is_updating was false.
UpdatingOnlyDuringPropagation ==
    /\ ~is_updating
    /\ ~last.unguarded

----------------------------------------------------------------------------
\* Feedback, the neutral state, hover and the annotation.

\* C21: no event ends with a RecursionError; every slider push of the
\* coordinator is issued under the guard, so the value_updated it enters
\* returns at once: the observer is never nested deeper than one level
\* below the event (one level for a pick, two for a slider change, whose
\* first level is the change itself), and an event issues at most one push
\* per slider for each fan-out it runs.
NoFeedbackLoop ==
    /\ last.exc # "RecursionError"
    /\ ~last.unguarded
    /\ last.op = "pick" =>
           /\ last.nested <= 1
           /\ last.pushes <= Len(criteria)
    /\ last.op = "set_val" =>
           /\ last.nested <= 2
           /\ last.pushes <= 2 * Len(criteria) - 1

\* A slider change that pushed the other slider and then, in the fan-out,
\* both sliders: three pushes, each entering a guarded value_updated.
NoFeedbackLoopWitness ==
    /\ last.op = "set_val" /\ last.branch = "run" /\ last.exc = ""
    /\ last.nested = 2
    /\ last.pushes = 3
    /\ Len(criteria) = 2

\* C22: in every state reached by pick, hover and slider events, when
\* nothing is selected (index_clicked = -1) clicked is false and
\* point_clicked is None; so every event that clears the selection ends in
\* that state.
NeutralLifecycle ==
    index_clicked = -1 =>
        /\ ~clicked
        /\ point_clicked = None

\* The selection was cleared by a pick in the clicked branch that resolved
\* to the sample a slider had selected.
NeutralLifecycleWitness ==
    /\ last.op = "pick" /\ last.branch = "clicked" /\ last.exc = ""
    /\ ~last.neutral
    /\ index_clicked = -1
    /\ ~clicked
    /\ point_clicked = None

\* C23: a hover event, wherever the pointer is, leaves index_clicked,
\* clicked, point_clicked, is_updating, every artist opacity and every
\* slider value as they were and raises nothing; widget_index becomes the
\* index of the hovered slider when the pointer is over a slider axis and
\* is left alone otherwise.
HoverFrame ==
    [][last'.op = "hover" =>
          /\ UNCHANGED <<index_clicked, clicked, point_clicked, is_updating,
                         alpha, val>>
          /\ last'.exc = ""
          /\ widget_index' = IF last'.arg >= n_graphs
                             THEN <<last'.arg - n_graphs>>
                             ELSE widget_index]_vars

\* The pointer is over the second slider while a sample is selected and the
\* sliders have been moved to it.
HoverFrameWitness ==
    /\ last.op = "hover"
    /\ last.arg = n_graphs + 1
    /\ widget_index = <<1>>
    /\ index_clicked # -1
    /\ \E k \in Sliders : val[k + 1] # 0
    /\ \E x \in Artists : alpha[x] = Dim

\* The samples whose point, in the axis at a slot, is under the pointer;
\* empty for a slider axis, for no axis and for a display whose artists are
\* not points.
PointsUnder(slot, pos) ==
    {j \in Samples :
        \E d \in Displays : \E i \in 0 .. (DisplayAxes[d] - 1) :
            /\ IsPathCollection(d)
            /\ AxisSlot(d, i) = slot
            /\ Offsets(<<d, i, j>>) = pos}

\* C24: the annotation is hidden after plot(); after a hover event it is
\* visible exactly when the pointer is on a sample point, and then it
\* belongs to the hovered axis and is labelled with the lowest index among
\* the samples under the pointer; a hover that hits nothing while the
\* annotation is hidden leaves the annotation as it was and requests no
\* redraw; no other event touches the annotation.
AnnotationStateMachine ==
    /\ (last.op = "plot" => ~tag.visible)
    /\ [][/\ last'.op = "hover" =>
              LET under == PointsUnder(last'.arg, last'.pos)
              IN /\ tag'.visible = (under # {})
                 /\ under # {} =>
                        /\ tag'.axes = <<last'.arg>>
                        /\ tag'.text[1] \in under
                        /\ \A j \in under : tag'.text[1] <= j
                 /\ (under = {} /\ ~tag.visible) =>
                        /\ tag' = tag
                        /\ ~last'.redraw
          /\ last'.op # "hover" => tag' = tag]_vars

\* The pointer is on the point that samples 0 and 1 share in the second
\* sub-axis of the first display: the label names sample 0.
AnnotationStateMachineWitness ==
    /\ last.op = "hover"
    /\ Cardinality(PointsUnder(last.arg, last.pos)) > 1
    /\ tag.visible
    /\ tag.axes = <<last.arg>>
    /\ tag.text[1] = 0

\* C25: while the annotation is shown its label is offset by 20 on each
\* axis, with the sign flipped (-20) on an axis where the point is nearer
\* the upper limit than the lower one, and +20 otherwise.
LabelOffsetSignFlip ==
    tag.visible =>
        /\ tag.position[1] =
               IF (tag.xy[1] - XLim[1]) > (XLim[2] - tag.xy[1])
               THEN -LabelPos ELSE LabelPos
        /\ tag.position[2] =
               IF (tag.xy[2] - YLim[1]) > (YLim[2] - tag.xy[2])
               THEN -LabelPos ELSE LabelPos

\* C26: an unguarded value_updated takes as step the integer part of the
\* raw value (value \div Units, never rounded up), the step is a position of
\* the order of the slider named by widget_index, and the handler selects
\* the sample at that position (or clears the selection when that sample
\* was the selected one).
DiscretizeTruncates ==
    [][(/\ last'.op = "set_val"
        /\ last'.branch = "run"
        /\ widget_index # None) =>
          LET step == last'.value \div Units
              order == criteria[widget_index[1] + 1]
          IN /\ step < Len(order)
             /\ last'.exc # "IndexError"
             /\ last'.exc = "" =>
                    \/ index_clicked' = order[step + 1]
                    \/ /\ index_clicked = order[step + 1]
                       /\ index_clicked' = -1]_vars

\* C27: whenever an unguarded value_updated runs, widget_index is set and
\* is the index of the slider whose value changed.
WidgetIndexIsChangedSlider ==
    [][(/\ last'.op = "set_val"
        /\ last'.branch = "run") =>
          /\ widget_index # None
          /\ widget_index = <<last'.arg>>
          /\ last'.exc # "AttributeError"]_vars

\* C28: in every state reached by picks, hovers and slider changes, when
\* clicked is false and point_clicked is set, point_clicked is an artist of
\* the sample index_clicked, and when clicked is true a sample is selected.
NoStaleArtist ==
    /\ (~clicked /\ point_clicked # None) => point_clicked[3] = index_clicked
    /\ clicked => index_clicked # -1

\* C29: after a handler that ended with an error is_updating is false, and
\* no slider value change that arrives between events finds the guard set
\* and is ignored.
LatchReleased ==
    /\ last.exc # "" => ~is_updating
    /\ ~(last.op = "set_val" /\ last.branch = "guard")

\* C30: reading, on an object whose _estimator has not been created, an
\* attribute that __init__ did not set ends with an AttributeError before
\* the stack of __getattr__ frames reaches the interpreter's limit.
UnfittedLookupTerminates ==
    (/\ last.op = "getattr"
     /\ clustering.estimator = None
     /\ last.branch \notin {"metric", "linkage"}) =>
        /\ last.exc = "AttributeError"
        /\ last.nested < MaxDepth

\* C31: inner_product raises AttributeError exactly when regression_matrix
\* has not been called on the object before; otherwise it returns, and the
\* matrix it multiplies through is the transposed inner-product matrix of
\* the basis of the covariate last passed to regression_matrix with the
\* coefficient's basis, whatever the basis of the X it is given.
InnerProductCallOrder ==
    last.op = "inner_product" =>
        LET call == last.call[1]
        IN /\ (last.exc = "AttributeError") = (call.covariate = None)
           /\ call.covariate # None =>
                  /\ last.exc = ""
                  /\ call.result # None
                  /\ call.result[1].matrix =
                         [rows |-> coefficient_info[1].basis,
                          cols |-> call.covariate[1].basis]
                  /\ call.result[1].left = call.coefs[1].coefficients
                  /\ call.result[1].right = call.X[1].coefficients

\* inner_product was given an X in another basis than the covariate of the
\* last regression_matrix call and used the latter's matrix.
InnerProductCallOrderWitness ==
    /\ last.op = "inner_product"
    /\ last.exc = ""
    /\ last.call[1].covariate # None
    /\ last.call[1].X[1].basis # last.call[1].covariate[1].basis
    /\ last.call[1].result[1].matrix.cols = last.call[1].covariate[1].basis

====
